---------------------------- MODULE Spec2Model ----------------------------
(* A model of load_ses_spectra (src/ERLAB/data.py): the loader that reads   *)
(* every matched ARPES text file, takes the angle from the header, reads    *)
(* the numeric body and concatenates the per-file arrays along kx.          *)
(*                                                                          *)
(* A text line is the sequence of its tab-separated fields (strings); a     *)
(* file is the sequence of its lines. The content of a file is chosen when  *)
(* the file is opened. Paths are 1..n; their order is the lexicographic     *)
(* order of the path strings.                                               *)
EXTENDS Integers, Sequences, FiniteSets, TLC

(* ------------------------------ bounds -------------------------------- *)
MaxFiles == 2
MaxHeader == 4
MaxTail == 2

(* --------------------------- the file universe ------------------------ *)
Marker == <<"[Data]">>
HeaderLines == {<<"txt">>, <<"1">>, <<"2">>}
TailLines == {<<"1">>, <<"1", "7">>, <<"2", "7">>, <<"1", "7", "7", "7">>, Marker}

SeqsUpTo(S, n) == UNION {[1..k -> S] : k \in 0..n}

FileContents ==
    {h \o <<Marker>> \o t : h \in SeqsUpTo(HeaderLines, MaxHeader),
                            t \in SeqsUpTo(TailLines, MaxTail)}
    \cup SeqsUpTo(HeaderLines, MaxHeader)

Perms(n) == {p \in [1..n -> 1..n] : \A a, b \in 1..n : a # b => p[a] # p[b]}
GlobResults == UNION {Perms(n) : n \in 0..MaxFiles}

(* ------------------------- Python / library helpers ------------------- *)
None == <<>>
Some(v) == <<v>>

FloatValue == ("1" :> 1) @@ ("2" :> 2) @@ ("7" :> 7)

\* float(line.strip()): only a line that is one numeric field parses
float(line) ==
    IF Len(line) = 1 /\ line[1] \in DOMAIN FloatValue
    THEN Some(FloatValue[line[1]])
    ELSE None

\* the 1-based position lines[k] reads for a Python index k, 0 for IndexError
PyIndex(lines, k) ==
    IF k >= 0
    THEN IF k < Len(lines) THEN k + 1 ELSE 0
    ELSE IF -k <= Len(lines) THEN Len(lines) + k + 1 ELSE 0

\* float(lines[k].strip()) under try/except (ValueError, IndexError)
TryFloat(lines, k) ==
    IF PyIndex(lines, k) = 0 THEN None ELSE float(lines[PyIndex(lines, k)])

HasMarker(line) == \E j \in 1..Len(line) : line[j] = "[Data]"


\* lines 33-49: the scan from line i (0-based) to the first marker line, and
\* the two attempts to read the angle there. src is the 1-based position of
\* the line the angle was read from (0: none).
ParseAngle(lines, i) ==
    IF TryFloat(lines, i - 3) # None
    THEN [data_start_line |-> Some(i + 1), angle_value |-> TryFloat(lines, i - 3),
          warned |-> FALSE, src |-> PyIndex(lines, i - 3)]
    ELSE IF TryFloat(lines, i - 4) # None
    THEN [data_start_line |-> Some(i + 1), angle_value |-> TryFloat(lines, i - 4),
          warned |-> FALSE, src |-> PyIndex(lines, i - 4)]
    ELSE [data_start_line |-> Some(i + 1), angle_value |-> None,
          warned |-> TRUE, src |-> 0]

RECURSIVE ScanFrom(_, _)
ScanFrom(lines, i) ==
    IF i >= Len(lines)
    THEN [data_start_line |-> None, angle_value |-> None, warned |-> FALSE, src |-> 0]
    ELSE IF HasMarker(lines[i + 1])
    THEN ParseAngle(lines, i)
    ELSE ScanFrom(lines, i + 1)

\* a row of n fields: a shorter row is filled with NaN
Pad(row, n) == [j \in 1..n |-> IF j <= Len(row) THEN row[j] ELSE "NaN"]

\* pd.read_csv(file_path, sep='\t', header=None, skiprows=skiprows): the first
\* remaining line sets the number of columns
read_csv(lines, skiprows) ==
    LET rows == SubSeq(lines, skiprows + 1, Len(lines))
    IN  IF rows = <<>>
        THEN [err |-> "EmptyDataError", ncols |-> 0, rows |-> <<>>]
        ELSE IF \E r \in 1..Len(rows) : Len(rows[r]) > Len(rows[1])
        THEN [err |-> "ParserError", ncols |-> 0, rows |-> <<>>]
        ELSE [err |-> "", ncols |-> Len(rows[1]),
              rows |-> [r \in 1..Len(rows) |-> Pad(rows[r], Len(rows[1]))]]

\* lines 56-63: column 0 is the energy coordinate, the rest the pixels
DataArray(df, angle) ==
    [angle  |-> angle,
     energy |-> [r \in 1..Len(df.rows) |-> df.rows[r][1]],
     npix   |-> df.ncols - 1,
     data   |-> [r \in 1..Len(df.rows) |->
                    [p \in 1..(df.ncols - 1) |-> df.rows[r][p + 1]]]]

HasDuplicates(s) == \E a, b \in 1..Len(s) : a # b /\ s[a] = s[b]

\* the order of the joined energy index among the labels of the universe
LabelOrder == <<"1", "2", "7", "[Data]", "txt">>
InSet(S, x) == x \in S
SortedLabels(S) ==
    LET keep(x) == InSet(S, x) IN SelectSeq(LabelOrder, keep)

RowOf(d, label, same, j) ==
    IF same
    THEN d.data[j]
    ELSE IF \E r \in 1..Len(d.energy) : d.energy[r] = label
    THEN d.data[CHOOSE r \in 1..Len(d.energy) : d.energy[r] = label]
    ELSE [p \in 1..d.npix |-> "NaN"]

\* xr.concat(datasets, dim='angle', join='outer'): the energy indexes are
\* outer-joined (an index with duplicate labels cannot be reindexed); y_pixel
\* carries no index, so its sizes must agree
concat(ds) ==
    LET idxs  == {ds[k].energy : k \in 1..Len(ds)}
        sizes == {ds[k].npix : k \in 1..Len(ds)}
        same  == Cardinality(idxs) = 1
        energy == IF same THEN ds[1].energy
                  ELSE SortedLabels(UNION {{e[r] : r \in 1..Len(e)} : e \in idxs})
    IN  IF ~same /\ \E k \in 1..Len(ds) : HasDuplicates(ds[k].energy)
        THEN [err |-> "ValueError"]
        ELSE IF Cardinality(sizes) > 1
        THEN [err |-> "ValueError"]
        ELSE [err |-> "",
              angle  |-> [k \in 1..Len(ds) |-> ds[k].angle],
              energy |-> energy,
              npix   |-> ds[1].npix,
              data   |-> [k \in 1..Len(ds) |->
                            [j \in 1..Len(energy) |-> RowOf(ds[k], energy[j], same, j)]]]

first_pixel_momentum == -1
last_pixel_momentum == 1

\* linspace without its end point (endpoint=False): the step is (stop-start)/num
linspace_NoEndpoint(start, stop, num) ==
    [j \in 1..num |-> [n |-> start * num + (j - 1) * (stop - start), d |-> num]]

\* np.linspace(start, stop, num), each value as the fraction n/d
linspace(start, stop, num) ==
    IF num = 1
    THEN <<[n |-> start, d |-> 1]>>
    ELSE [j \in 1..num |-> [n |-> start * (num - 1) + (j - 1) * (stop - start),
                            d |-> num - 1]]

\* lines 72-78: rename angle to kx, attach ky to the y_pixel dimension
Finish(c) ==
    [kx |-> c.angle, energy |-> c.energy, npix |-> c.npix, data |-> c.data,
     ky |-> linspace(first_pixel_momentum, last_pixel_momentum, c.npix)]

\* the glob result used as it comes
unsorted(s) == s

sorted(s) == SortSeq(s, LAMBDA a, b : a < b)

\* whether the angle was read 3 or 4 lines before the marker line (both
\* positions 1-based; start is data_start_line, the marker's 0-based index + 1)
AtOffset(start, src) ==
    start # None /\ src >= 1 /\ src \in {start[1] - 3, start[1] - 4}

(* ------------------------------- state -------------------------------- *)
VARIABLES
    pc,               \* where the call is: glob, loop, body, done
    globbed,          \* what glob.glob returns (any order)
    file_list,        \* line 20
    idx,              \* position of the for loop in file_list, 1-based
    lines,            \* line 29
    data_start_line,  \* lines 31, 36
    angle_value,      \* lines 32, 41, 45, 48
    angle_src,        \* position of the line angle_value was read from
    datasets,         \* line 25, 65
    printed,          \* the warnings printed (line 47): the files' paths
    opened,           \* the number of files opened so far (line 28)
    trace,            \* per file processed: its path, the angle it gave,
                      \* whether it has a marker, where the angle was read
    outcome,          \* running, returned, or the error raised
    combined_data     \* the returned array (None until returned)

vars == <<pc, globbed, file_list, idx, lines, data_start_line, angle_value,
          angle_src, datasets, printed, opened, trace, outcome, combined_data>>

Init ==
    /\ pc = "glob"
    /\ globbed \in GlobResults
    /\ file_list = <<>>
    /\ idx = 0
    /\ lines = <<>>
    /\ data_start_line = None
    /\ angle_value = None
    /\ angle_src = 0
    /\ datasets = <<>>
    /\ printed = <<>>
    /\ opened = 0
    /\ trace = <<>>
    /\ outcome = "running"
    /\ combined_data = None

\* Glob without the check of lines 22-23
Glob_NoEmptyCheck ==
    /\ pc = "glob"
    /\ file_list' = sorted(globbed)
    /\ outcome' = outcome
    /\ pc' = "loop"
    /\ idx' = 1
    /\ UNCHANGED <<globbed, lines, data_start_line, angle_value, angle_src,
                   datasets, printed, opened, trace, combined_data>>

\* lines 20-25
Glob ==
    /\ pc = "glob"
    /\ file_list' = sorted(globbed)
    /\ IF file_list' = <<>>
       THEN /\ outcome' = "FileNotFoundError"
            /\ pc' = "done"
            /\ idx' = idx
       ELSE /\ outcome' = outcome
            /\ pc' = "loop"
            /\ idx' = 1
    /\ UNCHANGED <<globbed, lines, data_start_line, angle_value, angle_src,
                   datasets, printed, opened, trace, combined_data>>

\* lines 27-49: open the next file, read its lines, scan for the marker
OpenFile ==
    /\ pc = "loop"
    /\ idx <= Len(file_list)
    /\ \E content \in FileContents :
         LET r == ScanFrom(content, 0)
         IN  /\ lines' = content
             /\ data_start_line' = r.data_start_line
             /\ angle_value' = r.angle_value
             /\ angle_src' = r.src
             /\ printed' = IF r.warned THEN Append(printed, file_list[idx]) ELSE printed
    /\ opened' = opened + 1
    /\ pc' = "body"
    /\ UNCHANGED <<globbed, file_list, idx, datasets, trace, outcome, combined_data>>

\* Body with the continue of line 52 turned into a break
Body_BreakOnSkip ==
    /\ pc = "body"
    /\ trace' = Append(trace, [path |-> file_list[idx], angle |-> angle_value,
                               marker |-> data_start_line # None,
                               at_offset |-> AtOffset(data_start_line, angle_src)])
    /\ IF data_start_line = None \/ angle_value = None
       THEN /\ idx' = Len(file_list) + 1
            /\ pc' = "loop"
            /\ UNCHANGED <<datasets, outcome>>
       ELSE LET df == read_csv(lines, data_start_line[1])
            IN  IF df.err # ""
                THEN /\ outcome' = df.err
                     /\ pc' = "done"
                     /\ UNCHANGED <<datasets, idx>>
                ELSE /\ datasets' = Append(datasets, DataArray(df, angle_value[1]))
                     /\ idx' = idx + 1
                     /\ pc' = "loop"
                     /\ UNCHANGED outcome
    /\ lines' = <<>>
    /\ data_start_line' = None
    /\ angle_value' = None
    /\ angle_src' = 0
    /\ UNCHANGED <<globbed, file_list, printed, opened, combined_data>>

\* lines 51-65: skip the file, or read its body (the same content, read again
\* from the path) and append its array. lines, data_start_line and
\* angle_value are not read again before lines 29-32 overwrite them.
Body ==
    /\ pc = "body"
    /\ trace' = Append(trace, [path |-> file_list[idx], angle |-> angle_value,
                               marker |-> data_start_line # None,
                               at_offset |-> AtOffset(data_start_line, angle_src)])
    /\ IF data_start_line = None \/ angle_value = None
       THEN /\ idx' = idx + 1
            /\ pc' = "loop"
            /\ UNCHANGED <<datasets, outcome>>
       ELSE LET df == read_csv(lines, data_start_line[1])
            IN  IF df.err # ""
                THEN /\ outcome' = df.err
                     /\ pc' = "done"
                     /\ UNCHANGED <<datasets, idx>>
                ELSE /\ datasets' = Append(datasets, DataArray(df, angle_value[1]))
                     /\ idx' = idx + 1
                     /\ pc' = "loop"
                     /\ UNCHANGED outcome
    /\ lines' = <<>>
    /\ data_start_line' = None
    /\ angle_value' = None
    /\ angle_src' = 0
    /\ UNCHANGED <<globbed, file_list, printed, opened, combined_data>>

\* lines 67-80
Combine ==
    /\ pc = "loop"
    /\ idx > Len(file_list)
    /\ pc' = "done"
    /\ IF datasets = <<>>
       THEN /\ outcome' = "ValueError: No valid datasets"
            /\ UNCHANGED combined_data
       ELSE IF concat(datasets).err # ""
       THEN /\ outcome' = "ValueError: concat"
            /\ UNCHANGED combined_data
       ELSE /\ outcome' = "returned"
            /\ combined_data' = Some(Finish(concat(datasets)))
    /\ UNCHANGED <<globbed, file_list, idx, lines, data_start_line, angle_value,
                   angle_src, datasets, printed, opened, trace>>

Next == Glob \/ OpenFile \/ Body \/ Combine

Spec == Init /\ [][Next]_vars


(* ------------------------------ properties ---------------------------- *)
Returned == outcome = "returned"
Result == combined_data[1]
NoValidData == "ValueError: No valid datasets"

\* what the files processed so far gave
Accepted == SelectSeq(trace, LAMBDA t : t.angle # None)
AllProcessed == Len(trace) = Len(file_list)
DistinctAngles ==
    \A a, b \in 1..Len(datasets) : a # b => datasets[a].angle # datasets[b].angle

\* a body that is a proper table: numeric energies, no repeated energy, no
\* short row
IsNumber(tok) == tok \in DOMAIN FloatValue
ProperTable(d) ==
    /\ d.npix >= 1
    /\ \A r \in 1..Len(d.energy) : IsNumber(d.energy[r])
    /\ ~HasDuplicates(d.energy)
    /\ \A r \in 1..Len(d.data) : \A p \in 1..d.npix : IsNumber(d.data[r][p])

\* C1: N well-formed files with distinct angles give an array whose kx
\* dimension has length N. Well-formed: the marker is there, the angle
\* parses 3 or 4 lines before it, and the body is a proper table.
C1_KxLengthIsN ==
    (/\ pc = "done"
     /\ file_list # <<>>
     /\ AllProcessed
     /\ Len(datasets) = Len(file_list)
     /\ \A j \in 1..Len(trace) : trace[j].at_offset
     /\ \A k \in 1..Len(datasets) : ProperTable(datasets[k])
     /\ DistinctAngles)
    => (Returned /\ Len(Result.kx) = Len(file_list))

\* the line k lines before the marker at 0-based index i, when there is one
LineBefore(ls, i, k) == IF i - k >= 0 THEN Some(ls[i - k + 1]) ELSE None
ParsesBefore(ls, i, k) ==
    LineBefore(ls, i, k) # None /\ float(LineBefore(ls, i, k)[1]) # None
FirstMarker(ls) ==
    CHOOSE i \in 0..(Len(ls) - 1) :
        /\ HasMarker(ls[i + 1])
        /\ \A j \in 0..(i - 1) : ~HasMarker(ls[j + 1])
ContainsMarker(ls) == \E i \in 1..Len(ls) : HasMarker(ls[i])
CurrentPath == file_list[idx]
WarnedNow == printed # <<>> /\ printed[Len(printed)] = CurrentPath

\* C2: a file whose angle parses neither 3 nor 4 lines before the marker is
\* left out with a warning, and the run goes on: every matched file is
\* processed, and an array is returned when another file is valid.
C2_SkipDoesNotAbort ==
    /\ (/\ pc = "body"
        /\ ContainsMarker(lines)
        /\ ~ParsesBefore(lines, FirstMarker(lines), 3)
        /\ ~ParsesBefore(lines, FirstMarker(lines), 4))
       => (angle_value = None /\ WarnedNow)
    /\ (/\ pc = "done"
        /\ \E j \in 1..Len(trace) : trace[j].marker /\ trace[j].angle = None)
       => (AllProcessed /\ (datasets # <<>> => Returned))

\* C3: an empty glob result raises FileNotFoundError before any file is
\* opened or any dataset built.
C3_MissingFiles ==
    (pc # "glob" /\ globbed = <<>>)
    => (/\ pc = "done"
        /\ outcome = "FileNotFoundError"
        /\ opened = 0
        /\ trace = <<>>
        /\ datasets = <<>>
        /\ combined_data = None)

C3_Witness == pc = "done" /\ globbed = <<>> /\ outcome = "FileNotFoundError"

\* C4: when files match and none of them gives an angle, the call raises
\* the no-valid-data ValueError after every matched file was processed, and
\* returns nothing.
C4_NoValidData ==
    (/\ pc = "done"
     /\ file_list # <<>>
     /\ \A j \in 1..Len(trace) : trace[j].angle = None)
    => (/\ outcome = NoValidData
        /\ AllProcessed
        /\ opened = Len(file_list)
        /\ combined_data = None)

C4_Witness ==
    /\ pc = "done"
    /\ Len(file_list) = MaxFiles
    /\ Len(trace) = MaxFiles
    /\ \A j \in 1..Len(trace) : trace[j].marker /\ trace[j].angle = None
    /\ Len(printed) = MaxFiles
    /\ outcome = NoValidData

Labels(d) == {d.energy[r] : r \in 1..Len(d.energy)}
MaxPix == CHOOSE m \in {datasets[k].npix : k \in 1..Len(datasets)} :
              \A k \in 1..Len(datasets) : datasets[k].npix <= m

\* C5: accepted files with different rows or different pixel counts still
\* give an array: it has every file's energies and every file's pixel
\* columns, and NaN where a file has no value.
C5_OuterJoin ==
    (/\ pc = "done"
     /\ AllProcessed
     /\ datasets # <<>>
     /\ Len(datasets) = Len(Accepted)
     /\ \A k \in 1..Len(datasets) : ProperTable(datasets[k]))
    => (/\ Returned
        /\ \A k \in 1..Len(datasets) :
             /\ Labels(datasets[k]) \subseteq Labels(Result)
             /\ datasets[k].npix <= Result.npix
        /\ Result.npix = MaxPix
        /\ \A k \in 1..Len(datasets) : \A j \in 1..Len(Result.energy) :
             Result.energy[j] \notin Labels(datasets[k])
             => \A p \in 1..Result.npix : Result.data[k][j][p] = "NaN")

\* C6: a call ends with a returned array, the missing-files error or the
\* no-valid-data error, and nothing else.
C6_ThreeOutcomes ==
    pc = "done" => outcome \in {"returned", "FileNotFoundError", NoValidData}

\* fractions n/d with d > 0
FracEq(a, b) == a.n * b.d = b.n * a.d
Minus(a, b) == [n |-> a.n * b.d - b.n * a.d, d |-> a.d * b.d]

\* C7: ky is linspace(-1.0, 1.0, pixel_count): one entry per pixel column,
\* from -1 to 1 in equal steps, whatever the files hold.
C7_KyIsLinspace ==
    Returned =>
        LET ky == Result.ky
            np == Result.npix
        IN  /\ Len(ky) = np
            /\ \A k \in 1..Len(Result.data) : \A j \in 1..Len(Result.data[k]) :
                 Len(Result.data[k][j]) = Len(ky)
            /\ \A j \in 1..np : ky[j].d > 0
            /\ np >= 1 => FracEq(ky[1], [n |-> -1, d |-> 1])
            /\ np >= 2 => FracEq(ky[np], [n |-> 1, d |-> 1])
            /\ \A j \in 2..(np - 1) :
                 FracEq(Minus(ky[j + 1], ky[j]), Minus(ky[j], ky[j - 1]))

C7_Witness ==
    /\ Returned
    /\ Result.npix = 3
    /\ Len(Result.kx) = MaxFiles
    /\ Len(Result.energy) = 2

\* C8: only the first marker line counts; the angle is the value 3 lines
\* before it when that parses, else the value 4 lines before it when that
\* parses, else the file is skipped with a warning.
C8_FirstMarkerAngle ==
    (pc = "body" /\ ContainsMarker(lines))
    => LET i == FirstMarker(lines)
       IN  /\ data_start_line = Some(i + 1)
           /\ IF ParsesBefore(lines, i, 3)
              THEN angle_value = float(LineBefore(lines, i, 3)[1])
              ELSE IF ParsesBefore(lines, i, 4)
              THEN angle_value = float(LineBefore(lines, i, 4)[1])
              ELSE angle_value = None /\ WarnedNow

\* C9: the angle of an accepted file is read from a line strictly before
\* the marker line, never from a line at or after it (data_start_line is the
\* 1-based position of the marker line).
C9_AngleBeforeMarker ==
    (pc = "body" /\ angle_value # None)
    => (angle_src >= 1 /\ angle_src < data_start_line[1])

\* C10: kx lists the angles of the accepted files in the order of their
\* paths, one entry per accepted file, skipped files leaving none.
C10_KxInPathOrder ==
    Returned =>
        /\ Len(Result.kx) = Len(Accepted)
        /\ \A j \in 1..Len(Accepted) : Result.kx[j] = Accepted[j].angle[1]
        /\ \A a, b \in 1..Len(trace) : a < b => trace[a].path < trace[b].path
        /\ {trace[j].path : j \in 1..Len(trace)} = {globbed[j] : j \in 1..Len(globbed)}

C10_Witness ==
    /\ Returned
    /\ globbed = <<2, 1>>
    /\ Result.kx = <<2, 1>>

=============================================================================
